---- MODULE Spec2Model ----
(***************************************************************************)
(* Model of the desired-state differ (orchestrator/utils/jsonpatcher.py),  *)
(* of the handler zpa_diff that serves it (orchestrator/app.py) with its   *)
(* fetch of the current policies (orchestrator/connectors/zpa.py), and of  *)
(* the approval-gated enforcement handler zpa_enforce (orchestrator/app.py)*)
(* with its approval lookup (orchestrator/connectors/jira.py).  Handlers   *)
(* run on one event loop: a step is the code an invocation runs between    *)
(* two awaits, and invocations interleave at the awaits.                   *)
(*                                                                         *)
(* Python strings that the code transforms or compares character by        *)
(* character (mapping keys, paths, the environment flag, status names) are *)
(* sequences of one-character strings.  A JSON value is a record           *)
(* [t |-> <Python type name>, v |-> <payload>]:                            *)
(*   NoneType: v = 0;  bool: v \in {0,1};  int: v an integer;              *)
(*   list: v a sequence of values;                                         *)
(*   dict: v a sequence of entries [k |-> key, v |-> value] with distinct  *)
(*         keys, in insertion order (the order dict.keys() enumerates).    *)
(***************************************************************************)
EXTENDS Integers, Sequences, FiniteSets, TLC

VARIABLES
    \* ---- differ (make_patch called on its own) ----
    current,      \* the "current" tree handed to make_patch
    desired,      \* the "desired" tree handed to make_patch
    patch,        \* the list make_patch returned
    dpc,          \* "ready" before make_patch ran, "done" after
    \* ---- handler zpa_diff ----
    diffs,        \* ZPA_DIFFS
    dcalls,       \* per invocation of zpa_diff, in order of entry: its
                  \* position, its desired, the current it handed to
                  \* make_patch, and the patch, summary and changes of its
                  \* answer
    \* ---- gate (zpa_enforce) ----
    env,          \* the process environment's ZPA_ENABLE_ENFORCE
    attempts,     \* ZPA_ENFORCE_ATTEMPTS
    applied,      \* ZPA_ENFORCE_APPLIED
    blocked,      \* ZPA_ENFORCE_BLOCKED
    lookups,      \* number of jira.get_issue calls made so far
    calls         \* per invocation of zpa_enforce: its position, arguments,
                  \* the lookup's outcome and the value it returned

dvars == <<current, desired, patch, dpc>>
hvars == <<diffs, dcalls>>
gvars == <<env, attempts, applied, blocked, lookups, calls>>
vars == <<current, desired, patch, dpc, diffs, dcalls,
          env, attempts, applied, blocked, lookups, calls>>

(***************************************************************************)
(* Bounds.                                                                 *)
(***************************************************************************)
\* number of handler invocations, zpa_enforce and zpa_diff together (they
\* may overlap at their awaits)
MaxCalls == 2
\* largest total number of nodes of an arbitrary pair (current, desired)
MaxPairNodes == 5
\* largest number of nodes of a tree diffed against a re-ordering of itself
MaxNodes == 4

None == [t |-> "NoneType", v |-> 0]
PyTrue == [t |-> "bool", v |-> 1]
PyInt(n) == [t |-> "int", v |-> n]
PyStr(s) == [t |-> "str", v |-> s]
MkList(s) == [t |-> "list", v |-> s]
MkDict(s) == [t |-> "dict", v |-> s]

Scalars == {None, PyTrue, PyInt(1), PyInt(2)}
Keys == {<<"a">>, <<"~", "/">>}

RECURSIVE TreesN(_), ListBodies(_), DictBodies(_, _)
\* sequences of trees with n nodes in total
ListBodies(n) ==
    IF n = 0 THEN {<<>>}
    ELSE UNION { { <<t>> \o rest : t \in TreesN(j), rest \in ListBodies(n - j) }
                 : j \in 1..n }
\* sequences of entries with n value nodes in total and distinct keys not in used
DictBodies(n, used) ==
    IF n = 0 THEN {<<>>}
    ELSE UNION { UNION { { <<[k |-> key, v |-> t]>> \o rest :
                           t \in TreesN(j),
                           rest \in DictBodies(n - j, used \cup {key}) }
                         : key \in Keys \ used }
                 : j \in 1..n }
\* the trees with exactly n nodes
TreesN(n) ==
    IF n = 1 THEN Scalars \cup {MkList(<<>>), MkDict(<<>>)}
    ELSE { MkList(b) : b \in ListBodies(n - 1) }
         \cup { MkDict(b) : b \in DictBodies(n - 1, {}) }

(***************************************************************************)
(* Python helpers used by the differ.                                      *)
(***************************************************************************)
\* dict.keys() as a set, d[k]
KeySet(d) == { d.v[i].k : i \in DOMAIN d.v }
Lookup(d, key) == d.v[CHOOSE i \in DOMAIN d.v : d.v[i].k = key].v

\* str.replace(c, r) for a one-character c
RECURSIVE Replace(_, _, _)
Replace(s, c, r) ==
    IF s = <<>> THEN <<>>
    ELSE (IF Head(s) = c THEN r ELSE <<Head(s)>>) \o Replace(Tail(s), c, r)

\* "/".join(segs)
RECURSIVE Join(_)
Join(segs) ==
    IF segs = <<>> THEN <<>>
    ELSE IF Len(segs) = 1 THEN segs[1]
    ELSE segs[1] \o <<"/">> \o Join(Tail(segs))

\* the == of Python on JSON values: bool is an int (True == 1), containers
\* compare element-wise with ==
IsNum(x) == x.t \in {"bool", "int"}
RECURSIVE PyEq(_, _)
PyEq(x, y) ==
    IF IsNum(x) /\ IsNum(y) THEN x.v = y.v
    ELSE IF x.t # y.t THEN FALSE
    ELSE IF x.t = "list" THEN
        /\ Len(x.v) = Len(y.v)
        /\ \A i \in DOMAIN x.v : PyEq(x.v[i], y.v[i])
    ELSE IF x.t = "dict" THEN
        /\ KeySet(x) = KeySet(y)
        /\ \A key \in KeySet(x) : PyEq(Lookup(x, key), Lookup(y, key))
    ELSE x.v = y.v

\* x.get(key, default); a value that is no dict has no get: AttributeError,
\* which every later .get of the chain passes on
AttributeError == [t |-> "AttributeError", v |-> 0]
PyGet(x, key, default) ==
    IF x.t # "dict" THEN AttributeError
    ELSE IF key \in KeySet(x) THEN Lookup(x, key) ELSE default

Entry(key, val) == [k |-> key, v |-> val]

\* bool(x), and `x or y`
Truthy(x) ==
    IF x.t = "NoneType" THEN FALSE
    ELSE IF IsNum(x) THEN x.v # 0
    ELSE x.v # <<>>
PyOr(x, y) == IF Truthy(x) THEN x ELSE y

\* str.lower() and str.upper(), character by character, on the characters the
\* model writes strings with: printable ASCII and the letters and signs of
\* the Latin-1 supplement whose two cases both lie below U+0100 (a string of
\* this module cannot hold a character above U+00FF, nor a grave accent).
\* A character may change into several.  The operators are undefined outside
\* this alphabet.
LowerMap ==
    ("A" :> <<"a">>) @@ ("B" :> <<"b">>) @@ ("C" :> <<"c">>) @@ ("D" :>
    <<"d">>) @@ ("E" :> <<"e">>) @@ ("F" :> <<"f">>) @@ ("G" :> <<"g">>)
    @@ ("H" :> <<"h">>) @@ ("I" :> <<"i">>) @@ ("J" :> <<"j">>) @@ ("K" :>
    <<"k">>) @@ ("L" :> <<"l">>) @@ ("M" :> <<"m">>) @@ ("N" :> <<"n">>)
    @@ ("O" :> <<"o">>) @@ ("P" :> <<"p">>) @@ ("Q" :> <<"q">>) @@ ("R" :>
    <<"r">>) @@ ("S" :> <<"s">>) @@ ("T" :> <<"t">>) @@ ("U" :> <<"u">>)
    @@ ("V" :> <<"v">>) @@ ("W" :> <<"w">>) @@ ("X" :> <<"x">>) @@ ("Y" :>
    <<"y">>) @@ ("Z" :> <<"z">>) @@ ("À" :> <<"à">>) @@ ("Á" :> <<"á">>)
    @@ ("Â" :> <<"â">>) @@ ("Ã" :> <<"ã">>) @@ ("Ä" :> <<"ä">>) @@ ("Å" :>
    <<"å">>) @@ ("Æ" :> <<"æ">>) @@ ("Ç" :> <<"ç">>) @@ ("È" :> <<"è">>)
    @@ ("É" :> <<"é">>) @@ ("Ê" :> <<"ê">>) @@ ("Ë" :> <<"ë">>) @@ ("Ì" :>
    <<"ì">>) @@ ("Í" :> <<"í">>) @@ ("Î" :> <<"î">>) @@ ("Ï" :> <<"ï">>)
    @@ ("Ð" :> <<"ð">>) @@ ("Ñ" :> <<"ñ">>) @@ ("Ò" :> <<"ò">>) @@ ("Ó" :>
    <<"ó">>) @@ ("Ô" :> <<"ô">>) @@ ("Õ" :> <<"õ">>) @@ ("Ö" :> <<"ö">>)
    @@ ("Ø" :> <<"ø">>) @@ ("Ù" :> <<"ù">>) @@ ("Ú" :> <<"ú">>) @@ ("Û" :>
    <<"û">>) @@ ("Ü" :> <<"ü">>) @@ ("Ý" :> <<"ý">>) @@ ("Þ" :> <<"þ">>)
LowerFixed ==
    {" ", "!", "\"", "#", "$", "%", "&", "'", "(", ")", "*", "+", ",",
     "-", ".", "/", "0", "1", "2", "3", "4", "5", "6", "7", "8", "9", ":",
     ";", "<", "=", ">", "?", "@", "[", "\\", "]", "^", "_", "a",
     "b", "c", "d", "e", "f", "g", "h", "i", "j", "k", "l", "m", "n", "o",
     "p", "q", "r", "s", "t", "u", "v", "w", "x", "y", "z", "{", "|", "}",
     "~", "¡", "¢", "£", "¤", "¥", "¦", "§", "¨", "©", "ª", "«", "¬", "®",
     "¯", "°", "±", "²", "³", "´", "¶", "·", "¸", "¹", "º", "»", "¼", "½",
     "¾", "¿", "×", "ß", "à", "á", "â", "ã", "ä", "å", "æ", "ç", "è", "é",
     "ê", "ë", "ì", "í", "î", "ï", "ð", "ñ", "ò", "ó", "ô", "õ", "ö", "÷",
     "ø", "ù", "ú", "û", "ü", "ý", "þ"}
LowerChar(c) == CASE c \in DOMAIN LowerMap -> LowerMap[c] [] c \in LowerFixed -> <<c>>
RECURSIVE Lower(_)
Lower(s) == IF s = <<>> THEN <<>> ELSE LowerChar(Head(s)) \o Lower(Tail(s))

UpperMap ==
    ("a" :> <<"A">>) @@ ("b" :> <<"B">>) @@ ("c" :> <<"C">>) @@ ("d" :>
    <<"D">>) @@ ("e" :> <<"E">>) @@ ("f" :> <<"F">>) @@ ("g" :> <<"G">>)
    @@ ("h" :> <<"H">>) @@ ("i" :> <<"I">>) @@ ("j" :> <<"J">>) @@ ("k" :>
    <<"K">>) @@ ("l" :> <<"L">>) @@ ("m" :> <<"M">>) @@ ("n" :> <<"N">>)
    @@ ("o" :> <<"O">>) @@ ("p" :> <<"P">>) @@ ("q" :> <<"Q">>) @@ ("r" :>
    <<"R">>) @@ ("s" :> <<"S">>) @@ ("t" :> <<"T">>) @@ ("u" :> <<"U">>)
    @@ ("v" :> <<"V">>) @@ ("w" :> <<"W">>) @@ ("x" :> <<"X">>) @@ ("y" :>
    <<"Y">>) @@ ("z" :> <<"Z">>) @@ ("ß" :> <<"S", "S">>) @@ ("à" :>
    <<"À">>) @@ ("á" :> <<"Á">>) @@ ("â" :> <<"Â">>) @@ ("ã" :> <<"Ã">>)
    @@ ("ä" :> <<"Ä">>) @@ ("å" :> <<"Å">>) @@ ("æ" :> <<"Æ">>) @@ ("ç" :>
    <<"Ç">>) @@ ("è" :> <<"È">>) @@ ("é" :> <<"É">>) @@ ("ê" :> <<"Ê">>)
    @@ ("ë" :> <<"Ë">>) @@ ("ì" :> <<"Ì">>) @@ ("í" :> <<"Í">>) @@ ("î" :>
    <<"Î">>) @@ ("ï" :> <<"Ï">>) @@ ("ð" :> <<"Ð">>) @@ ("ñ" :> <<"Ñ">>)
    @@ ("ò" :> <<"Ò">>) @@ ("ó" :> <<"Ó">>) @@ ("ô" :> <<"Ô">>) @@ ("õ" :>
    <<"Õ">>) @@ ("ö" :> <<"Ö">>) @@ ("ø" :> <<"Ø">>) @@ ("ù" :> <<"Ù">>)
    @@ ("ú" :> <<"Ú">>) @@ ("û" :> <<"Û">>) @@ ("ü" :> <<"Ü">>) @@ ("ý" :>
    <<"Ý">>) @@ ("þ" :> <<"Þ">>)
UpperFixed ==
    {" ", "!", "\"", "#", "$", "%", "&", "'", "(", ")", "*", "+", ",",
     "-", ".", "/", "0", "1", "2", "3", "4", "5", "6", "7", "8", "9", ":",
     ";", "<", "=", ">", "?", "@", "A", "B", "C", "D", "E", "F", "G", "H",
     "I", "J", "K", "L", "M", "N", "O", "P", "Q", "R", "S", "T", "U", "V",
     "W", "X", "Y", "Z", "[", "\\", "]", "^", "_", "{", "|", "}",
     "~", "¡", "¢", "£", "¤", "¥", "¦", "§", "¨", "©", "ª", "«", "¬", "®",
     "¯", "°", "±", "²", "³", "´", "¶", "·", "¸", "¹", "º", "»", "¼", "½",
     "¾", "¿", "À", "Á", "Â", "Ã", "Ä", "Å", "Æ", "Ç", "È", "É", "Ê", "Ë",
     "Ì", "Í", "Î", "Ï", "Ð", "Ñ", "Ò", "Ó", "Ô", "Õ", "Ö", "×", "Ø", "Ù",
     "Ú", "Û", "Ü", "Ý", "Þ", "÷"}
UpperChar(c) == CASE c \in DOMAIN UpperMap -> UpperMap[c] [] c \in UpperFixed -> <<c>>
RECURSIVE Upper(_)
Upper(s) == IF s = <<>> THEN <<>> ELSE UpperChar(Head(s)) \o Upper(Tail(s))

(***************************************************************************)
(* jsonpatcher.py                                                          *)
(***************************************************************************)
\* `k in old` (faulty variant: the key is looked up in its escaped form)
HasKeyEscaped(d, key) ==
    Replace(Replace(key, "~", <<"~", "0">>), "/", <<"~", "1">>) \in KeySet(d)
HasKey(d, key) == key \in KeySet(d)

\* the orders in which Python may enumerate a set S of str keys: the order
\* follows the keys' hashes (seeded per process) and, where hashes collide in
\* the set's table, the order of insertion, so each set has an order of its
\* own
SetOrders(S) ==
    { o \in [1..Cardinality(S) -> S] : \A i, j \in DOMAIN o : i # j => o[i] # o[j] }

\* (faulty variant: the difference is taken the wrong way round)
RemovedKeysSwapped(old, new) == SetOrders(KeySet(new) \ KeySet(old))
_path(parent, key) ==
    LET esc == Replace(Replace(key, "~", <<"~", "0">>), "/", <<"~", "1">>)
    IN  IF parent # <<>> \/ key # <<>>
        THEN <<"/">> \o Join(parent \o <<esc>>)
        ELSE <<"/">>

\* the sequences in which `for k in old.keys() - new.keys()` may visit the keys
RemovedKeys(old, new) == SetOrders(KeySet(old) \ KeySet(new))

\* _diff and make_patch give the set of patches the call may return: one
\* patch for every choice of enumeration order of every key set built on
\* the way
RECURSIVE _diff(_, _, _), DiffKeys(_, _, _, _)
\* the loop `for k in new.keys()` from entry i on
DiffKeys(old, new, parent, i) ==
    IF i > Len(new.v) THEN {<<>>}
    ELSE LET key == new.v[i].k
             here == IF ~HasKey(old, key)
                     THEN {<<[op |-> "add", path |-> _path(parent, key),
                              value |-> new.v[i].v]>>}
                     ELSE _diff(Lookup(old, key), new.v[i].v, parent \o <<key>>)
         IN  { h \o r : h \in here, r \in DiffKeys(old, new, parent, i + 1) }

_diff(old, new, parent) ==
    IF old.t # new.t THEN
        {<<[op |-> "replace",
            path |-> IF parent = <<>> THEN <<"/">> ELSE <<"/">> \o Join(parent),
            value |-> new]>>}
    ELSE IF old.t = "dict" THEN
        { [i \in DOMAIN rm |-> [op |-> "remove", path |-> _path(parent, rm[i])]] \o r :
          rm \in RemovedKeys(old, new), r \in DiffKeys(old, new, parent, 1) }
    ELSE IF old.t = "list" THEN
        IF ~PyEq(old, new)
        THEN {<<[op |-> "replace", path |-> <<"/">> \o Join(parent), value |-> new]>>}
        ELSE {<<>>}
    ELSE
        IF old.v # new.v
        THEN {<<[op |-> "replace", path |-> <<"/">> \o Join(parent), value |-> new]>>}
        ELSE {<<>>}

make_patch(cur, des) == _diff(cur, des, <<>>)

\* the characters of an op name
Chars(op) ==
    CASE op = "add" -> <<"a", "d", "d">>
      [] op = "remove" -> <<"r", "e", "m", "o", "v", "e">>
      [] op = "replace" -> <<"r", "e", "p", "l", "a", "c", "e">>

\* one line f"{op.upper()} {path}" per operation
summarize_patch(p) ==
    [i \in DOMAIN p |-> Upper(Chars(p[i].op)) \o <<" ">> \o p[i].path]

(***************************************************************************)
(* connectors/zpa.py                                                       *)
(***************************************************************************)
\* what `await self.session.get(...)` can do in ZPAConnector.get: raise, or
\* return a response r with a status code, a text, a content type that is
\* application/json (ctjson) or not, and a text that r.json() parses (to
\* body) or not
ZpaRaises == [kind |-> "raise"]
JsonResponse(code, body) ==
    [kind |-> "response", code |-> code, ctjson |-> TRUE, json |-> TRUE, body |-> body]
BadJsonResponse(code, text) ==
    [kind |-> "response", code |-> code, ctjson |-> TRUE, json |-> FALSE, text |-> text]
TextResponse(code, text) ==
    [kind |-> "response", code |-> code, ctjson |-> FALSE, json |-> FALSE, text |-> text]

\* r.json() on a text that is no JSON
JSONDecodeError == [t |-> "JSONDecodeError", v |-> 0]

\* ZPAConnector.get once session.get has returned r
get(r) ==
    IF r.ctjson /\ ~r.json THEN JSONDecodeError
    ELSE MkDict(<<Entry("status_code", PyInt(r.code)),
                  Entry("data", IF r.ctjson THEN r.body ELSE PyStr(r.text))>>)
get_current_policies(r) == get(r)

ZpaResponses ==
    {ZpaRaises}
    \cup { JsonResponse(200, b) :
           b \in { MkDict(<<>>), MkDict(<<Entry(<<"a">>, PyInt(1))>>),
                   MkList(<<>>), MkList(<<PyInt(1)>>), None } }
    \cup { BadJsonResponse(200, <<"<">>) }
    \cup { TextResponse(502, t) : t \in {<<>>, <<"d", "o", "w", "n">>} }

(***************************************************************************)
(* The differ as a state machine: the arguments are drawn in DInit,        *)
(* MakePatch applies make_patch to them.                                   *)
(***************************************************************************)
\* the trees equal to t as trees: t with the entries of its mappings in any
\* insertion order
Perms(s) ==
    { p \in [DOMAIN s -> DOMAIN s] : \A i, j \in DOMAIN s : i # j => p[i] # p[j] }
RECURSIVE Reorderings(_), ReorderAll(_)
\* for a sequence of trees, the sequences of their re-orderings
ReorderAll(s) ==
    IF s = <<>> THEN {<<>>}
    ELSE { <<h>> \o r : h \in Reorderings(Head(s)), r \in ReorderAll(Tail(s)) }
Reorderings(t) ==
    IF t.t = "list" THEN { MkList(b) : b \in ReorderAll(t.v) }
    ELSE IF t.t = "dict" THEN
        LET vals == ReorderAll([i \in DOMAIN t.v |-> t.v[i].v])
        IN  { MkDict([i \in DOMAIN t.v |-> [k |-> t.v[p[i]].k, v |-> vs[p[i]]]]) :
              p \in Perms(t.v), vs \in vals }
    ELSE {t}

PairInputs ==
    UNION { TreesN(i) \X TreesN(j) :
            <<i, j>> \in { q \in (1..MaxPairNodes) \X (1..MaxPairNodes) :
                           q[1] + q[2] <= MaxPairNodes } }
EqualInputs ==
    UNION { { <<t, u>> : u \in Reorderings(t) } :
            t \in UNION { TreesN(n) : n \in 1..MaxNodes } }

GateIdle ==
    /\ env = [set |-> FALSE, v |-> <<>>]
    /\ attempts = 0 /\ applied = 0 /\ blocked = 0 /\ lookups = 0
    /\ calls = <<>>
    /\ diffs = 0 /\ dcalls = <<>>

DInit ==
    /\ \E in \in PairInputs \cup EqualInputs :
          /\ current = in[1]
          /\ desired = in[2]
    /\ patch = <<>>
    /\ dpc = "ready"
    /\ GateIdle

\* make_patch(current, desired)
MakePatch ==
    /\ dpc = "ready"
    /\ patch' \in make_patch(current, desired)
    /\ dpc' = "done"
    /\ UNCHANGED <<current, desired>>
    /\ UNCHANGED <<gvars, hvars>>

DNext == MakePatch

SpecDiff == DInit /\ [][DNext]_vars

(***************************************************************************)
(* connectors/jira.py and the handlers zpa_enforce and zpa_diff of app.py  *)
(***************************************************************************)
sTrue == <<"t", "r", "u", "e">>
sFalse == <<"f", "a", "l", "s", "e">>
sApproved == <<"A", "p", "p", "r", "o", "v", "e", "d">>
sApprovedLower == <<"a", "p", "p", "r", "o", "v", "e", "d">>
sInReview == <<"I", "n", " ", "R", "e", "v", "i", "e", "w">>
sReadyForChange ==
    <<"R", "e", "a", "d", "y", " ", "f", "o", "r", " ", "C", "h", "a", "n", "g", "e">>


\* os.getenv(name, default) on the variable's state e
\* (faulty variant: enforcement defaults to "true")
GetenvDefaultTrue(e, default) == IF e.set THEN e.v ELSE sTrue
Getenv(e, default) == IF e.set THEN e.v ELSE default

\* os.getenv("ZPA_ENABLE_ENFORCE","false").lower() != "true" is false
EnforceEnabled(e) == Lower(Getenv(e, sFalse)) = sTrue

\* what `await self.session.get(...)` can do: raise (timeout, transport
\* error), or return a response r with a status code r.status_code and a
\* text r.text that r.json() parses (to body) or not
NoResp == [kind |-> "none"]
Raises == [kind |-> "raise"]
Response(code, body) == [kind |-> "response", code |-> code, json |-> TRUE, body |-> body]
NotJson(code, text) == [kind |-> "response", code |-> code, json |-> FALSE, text |-> text]

IssueBody(name) ==
    MkDict(<<Entry("fields",
              MkDict(<<Entry("status", MkDict(<<Entry("name", name)>>))>>))>>)
ErrorBody == MkDict(<<Entry("errorMessages", MkList(<<>>))>>)

StatusNames == {sApproved, sApprovedLower, sInReview, <<>>}
Responses ==
    {Raises}
    \cup { Response(200, IssueBody(PyStr(n))) : n \in StatusNames }
    \cup { Response(200, b) :
           b \in { MkDict(<<Entry("fields", MkDict(<<>>))>>),
                   MkDict(<<Entry("fields", None)>>),
                   MkList(<<>>) } }
    \cup { Response(c, ErrorBody) : c \in {401, 404} }
    \cup { NotJson(500, t) : t \in {<<>>, sApproved} }

\* JiraConnector.get_issue once session.get has returned r
get_issue(r) ==
    LET data == IF r.json THEN r.body
                ELSE MkDict(<<Entry("status_code", PyInt(r.code)),
                              Entry("text", PyStr(r.text))>>)
    IN  MkDict(<<Entry("status_code", PyInt(r.code)), Entry("data", data)>>)

\* ji.get("data",{}).get("fields",{}).get("status",{}).get("name","")
StatusNameOf(ji) ==
    PyGet(PyGet(PyGet(PyGet(ji, "data", MkDict(<<>>)), "fields", MkDict(<<>>)),
                "status", MkDict(<<>>)),
          "name", PyStr(<<>>))

\* `x in lst` (faulty variant: the comparison ignores letter case)
InListIgnoreCase(x, lst) ==
    \E i \in DOMAIN lst :
        IF x.t = "str" /\ lst[i].t = "str" THEN Lower(x.v) = Lower(lst[i].v)
        ELSE PyEq(lst[i], x)
InList(x, lst) == \E i \in DOMAIN lst : PyEq(lst[i], x)

\* the allow_statuses bodies of the requests; the first is the default
AllowLists ==
    { <<PyStr(sApproved), PyStr(sReadyForChange)>>,
      <<PyStr(sApprovedLower)>>,
      <<PyStr(<<>>)>> }
PatchLengths == {0, 3}
EnvValues ==
    {[set |-> FALSE, v |-> <<>>]}
    \cup { [set |-> TRUE, v |-> s] :
           s \in {sFalse, sTrue, <<"T", "R", "U", "E">>, <<"T", "R", "Ü", "E">>,
                  <<"1">>} }

NoResult ==
    [status |-> "none", reason |-> "", status_name |-> None, applied_ops |-> 0]
Idle == [pc |-> "INIT", allow |-> <<>>, nops |-> 0, resp |-> NoResp, result |-> NoResult]

\* the invocations made so far, of either handler
Started == Cardinality({ i \in DOMAIN calls : calls[i].pc # "INIT" }) + Len(dcalls)

\* the bodies of the requests to zpa_diff: <<desired, current>>
DiffBodies ==
    LET a(n) == MkDict(<<Entry(<<"a">>, PyInt(n))>>)
    IN  { <<a(2), None>>, <<a(2), MkDict(<<>>)>>, <<a(2), a(1)>>,
          <<MkDict(<<>>), MkDict(<<Entry(<<"a">>, PyInt(1)), Entry(<<"~", "/">>, PyInt(1))>>)>> }

Init ==
    /\ env \in EnvValues
    /\ attempts = 0 /\ applied = 0 /\ blocked = 0 /\ lookups = 0
    /\ calls = [i \in 1..MaxCalls |-> Idle]
    /\ diffs = 0 /\ dcalls = <<>>
    /\ current = None /\ desired = None /\ patch = <<>> /\ dpc = "off"

\* zpa_enforce from its entry to its first await (or to its return when
\* enforcement is off)
Enter(i, allow, nops) ==
    /\ calls[i].pc = "INIT"
    /\ Started < MaxCalls
    /\ attempts' = attempts + 1
    /\ IF ~EnforceEnabled(env)
       THEN /\ blocked' = blocked + 1
            /\ lookups' = lookups
            /\ calls' = [calls EXCEPT ![i] =
                 [pc |-> "BLOCKED", allow |-> allow, nops |-> nops, resp |-> NoResp,
                  result |-> [status |-> "blocked",
                              reason |-> "ZPA enforcement disabled (set ZPA_ENABLE_ENFORCE=true)",
                              status_name |-> None, applied_ops |-> 0]]]
       ELSE /\ blocked' = blocked
            /\ lookups' = lookups + 1
            /\ calls' = [calls EXCEPT ![i] =
                 [pc |-> "FETCHING_APPROVAL", allow |-> allow, nops |-> nops,
                  resp |-> NoResp, result |-> NoResult]]
    /\ UNCHANGED <<env, applied>>
    /\ UNCHANGED <<dvars, hvars>>

\* session.get raises inside get_issue: neither get_issue nor zpa_enforce has
\* a handler, the exception leaves zpa_enforce
LookupRaises(i) ==
    /\ calls[i].pc = "FETCHING_APPROVAL"
    /\ calls' = [calls EXCEPT ![i].pc = "RAISED", ![i].resp = Raises]
    /\ UNCHANGED <<env, attempts, applied, blocked, lookups>>
    /\ UNCHANGED <<dvars, hvars>>

\* session.get returns r: the rest of get_issue and of zpa_enforce
LookupReturns(i, r) ==
    /\ calls[i].pc = "FETCHING_APPROVAL"
    /\ r.kind = "response"
    /\ LET status_name == StatusNameOf(get_issue(r))
       IN  IF status_name = AttributeError
           THEN /\ calls' = [calls EXCEPT ![i].pc = "RAISED", ![i].resp = r]
                /\ UNCHANGED <<applied, blocked>>
           ELSE IF ~InList(status_name, calls[i].allow)
           THEN /\ blocked' = blocked + 1
                /\ applied' = applied
                /\ calls' = [calls EXCEPT ![i].pc = "BLOCKED", ![i].resp = r,
                       ![i].result = [status |-> "blocked",
                                      reason |-> "JIRA status not in allowlist",
                                      status_name |-> status_name, applied_ops |-> 0]]
           ELSE /\ applied' = applied + 1
                /\ blocked' = blocked
                /\ calls' = [calls EXCEPT ![i].pc = "ACCEPTED", ![i].resp = r,
                       ![i].result = [status |-> "accepted", reason |-> "",
                                      status_name |-> status_name,
                                      applied_ops |-> calls[i].nops]]
    /\ UNCHANGED <<env, attempts, lookups>>
    /\ UNCHANGED <<dvars, hvars>>

\* l.158-160 of zpa_diff on the current cur: what the invocation may end as
DiffAnswers(cur, des) ==
    LET cur2 == PyOr(cur, MkDict(<<>>))
    IN  { [pc |-> "DONE", desired |-> des, current |-> cur2, patch |-> p,
           summary |-> summarize_patch(p), changes |-> Len(p)] :
          p \in make_patch(cur2, des) }

\* zpa_diff from its entry to its await of the fetch, or to its return when
\* it does not fetch
DiffEnter(des, cur, fetch_current) ==
    /\ Started < MaxCalls
    /\ IF cur = None /\ fetch_current
       THEN /\ dcalls' = Append(dcalls,
                   [pc |-> "FETCHING_CURRENT", desired |-> des, current |-> cur,
                    patch |-> <<>>, summary |-> <<>>, changes |-> 0])
            /\ diffs' = diffs
       ELSE /\ \E a \in DiffAnswers(cur, des) : dcalls' = Append(dcalls, a)
            /\ diffs' = diffs + 1
    /\ UNCHANGED <<dvars, gvars>>

\* session.get raises inside ZPAConnector.get: neither get,
\* get_current_policies nor zpa_diff has a handler, the exception leaves
\* zpa_diff
FetchRaises(i) ==
    /\ dcalls[i].pc = "FETCHING_CURRENT"
    /\ dcalls' = [dcalls EXCEPT ![i].pc = "RAISED"]
    /\ UNCHANGED diffs
    /\ UNCHANGED <<dvars, gvars>>

\* session.get returns r: the rest of ZPAConnector.get and of zpa_diff
FetchReturns(i, r) ==
    /\ dcalls[i].pc = "FETCHING_CURRENT"
    /\ r.kind = "response"
    /\ LET cur == get_current_policies(r)
       IN  IF cur = JSONDecodeError
           THEN /\ dcalls' = [dcalls EXCEPT ![i].pc = "RAISED"]
                /\ diffs' = diffs
           ELSE /\ \E a \in DiffAnswers(PyGet(cur, "data", cur), dcalls[i].desired) :
                      dcalls' = [dcalls EXCEPT ![i] = a]
                /\ diffs' = diffs + 1
    /\ UNCHANGED <<dvars, gvars>>

Next ==
    \/ \E i \in 1..MaxCalls, allow \in AllowLists, nops \in PatchLengths :
          Enter(i, allow, nops)
    \/ \E i \in 1..MaxCalls : LookupRaises(i)
    \/ \E i \in 1..MaxCalls, r \in Responses : LookupReturns(i, r)
    \/ \E b \in DiffBodies, fetch_current \in BOOLEAN : DiffEnter(b[1], b[2], fetch_current)
    \/ \E i \in DOMAIN dcalls : FetchRaises(i)
    \/ \E i \in DOMAIN dcalls, r \in ZpaResponses : FetchReturns(i, r)

Spec == Init /\ [][Next]_vars

(***************************************************************************)
(* Notions the properties of the differ are stated with.                   *)
(***************************************************************************)
\* equality of two values as trees: same kind, same scalar, sequences equal
\* element by element, mappings equal key by key whatever their key order
RECURSIVE TreeEq(_, _)
TreeEq(x, y) ==
    IF x.t # y.t THEN FALSE
    ELSE IF x.t = "list" THEN
        /\ Len(x.v) = Len(y.v)
        /\ \A i \in DOMAIN x.v : TreeEq(x.v[i], y.v[i])
    ELSE IF x.t = "dict" THEN
        /\ KeySet(x) = KeySet(y)
        /\ \A key \in KeySet(x) : TreeEq(Lookup(x, key), Lookup(y, key))
    ELSE x.v = y.v

\* the key paths of a tree: the root and every mapping entry below it
RECURSIVE Locations(_)
Locations(t) ==
    {<<>>} \cup
    (IF t.t = "dict"
     THEN UNION { { <<t.v[i].k>> \o l : l \in Locations(t.v[i].v) } : i \in DOMAIN t.v }
     ELSE {})

\* one segment with "~" written "~0" and "/" written "~1"
RECURSIVE EscapeSegment(_)
EscapeSegment(seg) ==
    IF seg = <<>> THEN <<>>
    ELSE (CASE Head(seg) = "~" -> <<"~", "0">>
            [] Head(seg) = "/" -> <<"~", "1">>
            [] OTHER -> <<Head(seg)>>) \o EscapeSegment(Tail(seg))

\* the encoded path of a location: "/" and the escaped segments joined by "/"
RECURSIVE EncodeFrom(_)
EncodeFrom(loc) ==
    IF loc = <<>> THEN <<>>
    ELSE EscapeSegment(Head(loc))
         \o (IF Len(loc) > 1 THEN <<"/">> ELSE <<>>) \o EncodeFrom(Tail(loc))
Encode(loc) == <<"/">> \o EncodeFrom(loc)

\* two patches with the same operations in the same order (values compared
\* as trees)
SamePatch(p, q) ==
    /\ Len(p) = Len(q)
    /\ \A i \in DOMAIN p :
          /\ p[i].op = q[i].op
          /\ p[i].path = q[i].path
          /\ p[i].op # "remove" => TreeEq(p[i].value, q[i].value)

CountIn(s, o) == Cardinality({ i \in DOMAIN s : s[i] = o })
Depth2(t) ==
    /\ t.t = "dict"
    /\ \E i \in DOMAIN t.v : t.v[i].v.t \in {"dict", "list"} /\ t.v[i].v.v # <<>>

(***************************************************************************)
(* C6 (as claimed): equal trees give identical patches.  Once make_patch   *)
(* has returned, make_patch of any pair of trees equal to (current,        *)
(* desired) -- the same mappings with their keys inserted in another       *)
(* order, under any set enumeration order -- is the same list of           *)
(* operations in the same order.                                           *)
(***************************************************************************)
C6_EqualTreesSamePatch ==
    dpc = "done" =>
        \A c2 \in Reorderings(current), d2 \in Reorderings(desired) :
            \A p \in make_patch(c2, d2) : SamePatch(p, patch)

(***************************************************************************)
(* C7 (as claimed): every emitted path is the encoding of a location of    *)
(* the trees: "/" followed by the escaped segments from the root to the    *)
(* target, joined by "/".                                                  *)
(***************************************************************************)
C7_PathsAreEscaped ==
    dpc = "done" =>
        \A i \in DOMAIN patch :
            patch[i].path \in
                { Encode(loc) : loc \in Locations(current) \cup Locations(desired) }

(***************************************************************************)
(* C8: make_patch(X, X) is the empty patch, for any tree X.                *)
(***************************************************************************)
C8_Idempotent ==
    (dpc = "done" /\ current = desired) => patch = <<>>

\* make_patch has run on a tree that nests a non-empty container in a
\* mapping, against itself
C8_Witness ==
    /\ dpc = "done"
    /\ current = desired
    /\ Depth2(current)
    /\ patch = <<>>

(***************************************************************************)
(* C9: when current and desired are both mappings, the patch holds exactly *)
(* one remove op (without a value) at /key for every key only in current,  *)
(* exactly one add op at /key with the desired value for every key only in *)
(* desired, for every key in both the ops of the recursion on the two      *)
(* values with the path extended by the key, and nothing else.             *)
(***************************************************************************)
C9_MappingLevel ==
    (dpc = "done" /\ current.t = "dict" /\ desired.t = "dict") =>
        LET onlyCur == KeySet(current) \ KeySet(desired)
            onlyDes == KeySet(desired) \ KeySet(current)
            both == KeySet(current) \cap KeySet(desired)
            Rm(key) == [op |-> "remove", path |-> Encode(<<key>>)]
            Add(key) == [op |-> "add", path |-> Encode(<<key>>),
                         value |-> Lookup(desired, key)]
            Subs(key) == _diff(Lookup(current, key), Lookup(desired, key), <<key>>)
            Expected(op, sub) ==
                Cardinality({ key \in onlyCur : Rm(key) = op })
                + Cardinality({ key \in onlyDes : Add(key) = op })
                + Cardinality({ q \in both \X (1..Len(patch)) :
                                  q[2] <= CountIn(sub[q[1]], op) })
        IN  /\ \A key \in onlyCur : CountIn(patch, Rm(key)) = 1
            /\ \A key \in onlyDes : CountIn(patch, Add(key)) = 1
            /\ \E sub \in [both -> UNION { Subs(key) : key \in both }] :
                 /\ \A key \in both : sub[key] \in Subs(key)
                 /\ \A key \in both : \A i \in DOMAIN sub[key] :
                        CountIn(patch, sub[key][i]) >= 1
                 /\ \A i \in DOMAIN patch :
                        CountIn(patch, patch[i]) = Expected(patch[i], sub)

\* make_patch has run on two mappings with a key only in current, and a key
\* in both whose values differ
C9_WitnessRemove ==
    /\ dpc = "done"
    /\ current.t = "dict" /\ desired.t = "dict"
    /\ KeySet(current) \ KeySet(desired) # {}
    /\ \E key \in KeySet(current) \cap KeySet(desired) :
          ~TreeEq(Lookup(current, key), Lookup(desired, key))
    /\ Len(patch) >= 2

(***************************************************************************)
(* C10 (as claimed): two sequences at the same path that are not equal     *)
(* element by element give exactly one replace op at that path carrying    *)
(* the whole desired sequence; equal sequences give no op.                 *)
(***************************************************************************)
C10_SequencesAtomic ==
    (dpc = "done" /\ current.t = "list" /\ desired.t = "list") =>
        IF TreeEq(current, desired)
        THEN patch = <<>>
        ELSE patch = <<[op |-> "replace", path |-> <<"/">>, value |-> desired]>>

(***************************************************************************)
(* Notions the properties of the gate are stated with.                     *)
(***************************************************************************)
\* the invocation has ended, by a return or by an exception
Ended(c) == c.pc \in {"BLOCKED", "ACCEPTED", "RAISED"}
\* the environment enables enforcement: the flag is set to "true" in some
\* letter case
FlagEnabled(e) == e.set /\ e.v \in {sTrue, <<"T", "R", "U", "E">>, <<"T", "r", "u", "e">>}
\* the lookup gave an approval state: a 2xx JSON response with a status name
LookupSucceeded(r) ==
    /\ r.kind = "response" /\ r.code \in 200..299 /\ r.json
    /\ r.body.t = "dict" /\ "fields" \in KeySet(r.body)
    /\ Lookup(r.body, "fields").t = "dict"
    /\ "status" \in KeySet(Lookup(r.body, "fields"))
    /\ Lookup(Lookup(r.body, "fields"), "status").t = "dict"
    /\ "name" \in KeySet(Lookup(Lookup(r.body, "fields"), "status"))
    /\ Lookup(Lookup(Lookup(r.body, "fields"), "status"), "name").t = "str"
ApprovalStatus(r) == Lookup(Lookup(Lookup(r.body, "fields"), "status"), "name").v
\* the lookup was made and failed: exception, non-2xx, or no status
LookupFailed(r) == r.kind # "none" /\ ~LookupSucceeded(r)
Members(allow) == { allow[j].v : j \in DOMAIN allow }

(***************************************************************************)
(* C1 (as claimed): with enforcement enabled, an invocation whose approval *)
(* lookup failed ends BLOCKED: it returns a blocked decision, never an     *)
(* accepted one, and no exception leaves it.                               *)
(***************************************************************************)
C1_LookupFailureBlocks ==
    \A i \in DOMAIN calls :
        (FlagEnabled(env) /\ LookupFailed(calls[i].resp)) =>
            /\ calls[i].pc = "BLOCKED"
            /\ calls[i].result.status = "blocked"

(***************************************************************************)
(* C2: while the enforcement flag is not enabled (unset included), every   *)
(* invocation that has started has returned BLOCKED, whatever its patch    *)
(* and allowlist, and no approval lookup has been made.                    *)
(***************************************************************************)
C2_DisabledBlocks ==
    ~FlagEnabled(env) =>
        /\ lookups = 0
        /\ \A i \in DOMAIN calls :
              /\ calls[i].pc \in {"INIT", "BLOCKED"}
              /\ calls[i].resp = NoResp
              /\ calls[i].pc = "BLOCKED" => calls[i].result.status = "blocked"

\* with the flag unset, an invocation with a three-op patch and the default
\* allowlist has returned blocked
C2_Witness ==
    /\ ~env.set
    /\ \E i \in DOMAIN calls :
          /\ calls[i].pc = "BLOCKED"
          /\ calls[i].nops = 3
          /\ PyStr(sApproved) \in { calls[i].allow[j] : j \in DOMAIN calls[i].allow }
          /\ calls[i].result.status = "blocked"
    /\ attempts >= 1

(***************************************************************************)
(* C3: with enforcement enabled, an invocation whose lookup succeeded with *)
(* status s has returned ACCEPTED exactly when s is, character for         *)
(* character, one of the entries of its allowlist, and BLOCKED otherwise.  *)
(***************************************************************************)
C3_ExactMembership ==
    \A i \in DOMAIN calls :
        (FlagEnabled(env) /\ Ended(calls[i]) /\ LookupSucceeded(calls[i].resp)) =>
            IF ApprovalStatus(calls[i].resp) \in Members(calls[i].allow)
            THEN calls[i].pc = "ACCEPTED" /\ calls[i].result.status = "accepted"
            ELSE calls[i].pc = "BLOCKED" /\ calls[i].result.status = "blocked"

\* an invocation was blocked on a status that differs from an allowlist entry
\* in letter case only, and another was accepted
C3_Witness ==
    /\ \E i \in DOMAIN calls :
          /\ calls[i].pc = "BLOCKED"
          /\ LookupSucceeded(calls[i].resp)
          /\ ApprovalStatus(calls[i].resp) \notin Members(calls[i].allow)
          /\ Lower(ApprovalStatus(calls[i].resp))
                \in { Lower(m) : m \in Members(calls[i].allow) }
    /\ \E i \in DOMAIN calls :
          /\ calls[i].pc = "ACCEPTED"
          /\ LookupSucceeded(calls[i].resp)
          /\ ApprovalStatus(calls[i].resp) = sApproved

(***************************************************************************)
(* C4 (as claimed): every invocation that has started has incremented      *)
(* attempts once, and every invocation that has ended has incremented      *)
(* exactly one of applied and blocked once; so when all have ended,        *)
(* attempts = applied + blocked.                                           *)
(***************************************************************************)
C4_CountersBalanced ==
    /\ attempts = Cardinality({ i \in DOMAIN calls : calls[i].pc # "INIT" })
    /\ applied + blocked = Cardinality({ i \in DOMAIN calls : Ended(calls[i]) })

(***************************************************************************)
(* C5 (as claimed): an invocation that has ended is in exactly one of the  *)
(* terminal states BLOCKED and ACCEPTED and has returned that decision.    *)
(***************************************************************************)
C5_EndsInTerminalState ==
    \A i \in DOMAIN calls :
        Ended(calls[i]) =>
            \/ calls[i].pc = "BLOCKED" /\ calls[i].result.status = "blocked"
            \/ calls[i].pc = "ACCEPTED" /\ calls[i].result.status = "accepted"

(***************************************************************************)
(* Notions the remaining properties of the differ are stated with.         *)
(***************************************************************************)
\* the subtree of t at a location
RECURSIVE At(_, _)
At(t, loc) == IF loc = <<>> THEN t ELSE At(Lookup(t, Head(loc)), Tail(loc))
\* path q lies strictly below path p
Below(p, q) ==
    /\ Len(q) > Len(p)
    /\ SubSeq(q, 1, Len(p)) = p
    /\ (p = <<"/">> \/ q[Len(p) + 1] = "/")

(***************************************************************************)
(* C11 (as claimed): wherever the values at the same location of current   *)
(* and desired have different kinds, the patch holds exactly one op at     *)
(* that location's path, a replace carrying the whole desired subtree, and *)
(* no op at any path below it.                                             *)
(***************************************************************************)
C11_KindMismatchReplaces ==
    dpc = "done" =>
        \A loc \in Locations(current) \cap Locations(desired) :
            At(current, loc).t # At(desired, loc).t =>
                /\ CountIn(patch, [op |-> "replace", path |-> Encode(loc),
                                   value |-> At(desired, loc)]) = 1
                /\ \A i \in DOMAIN patch :
                      /\ patch[i].path = Encode(loc) => patch[i].op = "replace"
                      /\ ~Below(Encode(loc), patch[i].path)

(***************************************************************************)
(* C12 (as claimed): make_patch never misses a change: the patch is empty  *)
(* exactly when current and desired are equal as trees.                    *)
(***************************************************************************)
C12_EmptyIffEqual ==
    dpc = "done" => (patch = <<>> <=> TreeEq(current, desired))

====
